---- MODULE Spec2Model ----
(***************************************************************************)
(* Model of the duplicate-file cleanup engine of cleanup_duplicates.py:    *)
(* main -> run -> find_duplicates -> plan_cleanup -> preview_cleanup ->    *)
(* confirmation prompt -> execute_cleanup -> save_log.                      *)
(* Paths and user input are strings, handled with the sequence operators.  *)
(* Timestamps are whole seconds; a score is kept as an integer multiple of *)
(* 1/(86400*365) so that the comparison of scores is exact.                *)
(***************************************************************************)
EXTENDS Integers, Sequences, FiniteSets, TLC

VARIABLES pc, dry_run, create_backup, disk, stats, actions, duplicates,
          cleanup_plan, gi, ei, ej, response, log_written, exit_code,
          fsops, attempted, rm_failed, backup_failed, disk0, shown,
          file_list, results, argv, ws_kind, walked, stat_failed, log_failed,
          previous, root_dir, fd_duplicates, question, kg, qa_response

vars == <<pc, dry_run, create_backup, disk, stats, actions, duplicates,
          cleanup_plan, gi, ei, ej, response, log_written, exit_code,
          fsops, attempted, rm_failed, backup_failed, disk0, shown,
          file_list, results, argv, ws_kind, walked, stat_failed, log_failed,
          previous, root_dir, fd_duplicates, question, kg, qa_response>>

-----------------------------------------------------------------------------
(* Bounds of the model *)

\* largest number of files present in the workspace at the start of a run
MaxFiles == 4
\* largest distance, in seconds, between two readings of the wall clock
MaxClockAdvance == 2
\* largest number of os.stat failures during one walk
MaxStatFailures == 1
\* largest number of os.remove failures during one execution
MaxRemoveFailures == 1
\* largest number of repeated invocations of the scorer on one list
MaxInvocations == 2
\* largest number of duplicate groups handed to the planner on its own
MaxGroups == 11
\* largest number of those groups whose files have the larger size
MaxLargeGroups == 1
\* largest number of duplicated names in the workspace of a whole run
MaxExecGroups == 2
\* largest number of rows the graph returns for one query
MaxRows == 2

-----------------------------------------------------------------------------
(* Strings *)

UpperChars == "ABCDEFGHIJKLMNOPQRSTUVWXYZ"
LowerChars == "abcdefghijklmnopqrstuvwxyz"

\* str.lower() on one character
LowerChar(c) ==
  IF \E i \in 1..Len(UpperChars) : SubSeq(UpperChars, i, i) = c
  THEN LET i == CHOOSE k \in 1..Len(UpperChars) : SubSeq(UpperChars, k, k) = c
       IN  SubSeq(LowerChars, i, i)
  ELSE c

RECURSIVE Lower(_)
\* str.lower()
Lower(s) == IF s = "" THEN "" ELSE LowerChar(Head(s)) \o Lower(Tail(s))

RECURSIVE LStrip(_)
LStrip(s) == IF s # "" /\ Head(s) = " " THEN LStrip(Tail(s)) ELSE s

RECURSIVE RStrip(_)
RStrip(s) ==
  IF s # "" /\ SubSeq(s, Len(s), Len(s)) = " "
  THEN RStrip(SubSeq(s, 1, Len(s) - 1)) ELSE s

\* str.strip()
Strip(s) == RStrip(LStrip(s))

\* Python's  needle in s
Contains(needle, s) ==
  \E i \in 1..(Len(s) - Len(needle) + 1) : SubSeq(s, i, i + Len(needle) - 1) = needle

\* str.startswith
StartsWith(s, prefix) ==
  Len(s) >= Len(prefix) /\ SubSeq(s, 1, Len(prefix)) = prefix

\* len(s.split(sep)) for a one-character separator
SplitLen(s, sep) == Cardinality({i \in 1..Len(s) : SubSeq(s, i, i) = sep}) + 1

\* os.path.basename: what follows the last separator
basename(p) ==
  LET seps == {i \in 1..Len(p) : SubSeq(p, i, i) = "/"}
      last == IF seps = {} THEN 0 ELSE CHOOSE i \in seps : \A k \in seps : k <= i
  IN  SubSeq(p, last + 1, Len(p))

\* os.path.join(root, file)
path_join(root, file) == root \o "/" \o file

-----------------------------------------------------------------------------
(* The object's configuration, DuplicateCleanup.__init__ *)

workspace_dir == "/ws"
backup_dir == path_join(workspace_dir, "backup_before_cleanup")
log_file == path_join(workspace_dir, "cleanup_log_19700101_000000.json")

preserve_dirs == {".git", ".venv", "node_modules", "__pycache__", ".pytest_cache"}

critical_files ==
  {"README.md", "package.json", "requirements.txt", ".gitignore", "LICENSE", "Makefile"}

\* len(self.preservation_rules)
NumRules == 6

\* self.preservation_rules[i] applied to str(path), i counted from 0
preservation_rule(i, p) ==
  CASE i = 0 -> ~(\E preserve \in preserve_dirs : Contains(preserve, p))
    [] i = 1 -> SplitLen(p, "/") < 10
    [] i = 2 -> ~Contains("Schedule & Logistics", p)
    [] i = 3 -> ~StartsWith(p, ".")
    [] i = 4 -> Contains("original", Lower(p))
    [] i = 5 -> ~Contains("backup", Lower(p))

EmptyStats ==
  [files_analyzed |-> 0, duplicate_groups |-> 0, files_to_delete |-> 0,
   space_to_save |-> 0, files_preserved |-> 0, errors |-> <<>>]

-----------------------------------------------------------------------------
(* The workspace the runs are checked on *)

SecondsPerDay == 86400
DaysPerYear == 365
SecondsPerYear == SecondsPerDay * DaysPerYear

\* the wall clock when the run starts, and the readings it can give later
T0 == 2 * SecondsPerYear
Clock == T0..(T0 + MaxClockAdvance)

Sizes == {100, 200}
MTimes == {T0 - SecondsPerYear, T0 - SecondsPerYear + 1}
Meta == [size : Sizes, modified : MTimes]

\* directories of the workspace and the file names each can hold, in the
\* order os.walk lists them
DirOrder == <<"a", "b", "Original">>
NameOrder ==
  [d \in {"a", "b", "Original"} |->
     IF d = "Original" THEN <<"report.txt">> ELSE <<"report.txt", "README.md">>]

Range(s) == {s[i] : i \in 1..Len(s)}

SlotPaths ==
  UNION {{path_join(path_join(workspace_dir, d), n) : n \in Range(NameOrder[d])} :
         d \in Range(DirOrder)}

\* the names of the duplicated files the planner is checked on: f01.txt, ...
Digits == "0123456789"
GroupName(i) ==
  "f" \o SubSeq(Digits, (i \div 10) + 1, (i \div 10) + 1)
      \o SubSeq(Digits, (i % 10) + 1, (i % 10) + 1) \o ".txt"

PlanPaths ==
  {path_join(path_join(workspace_dir, d), GroupName(i)) :
     d \in Range(DirOrder), i \in 1..MaxGroups}

\* the sizes and times a file of the workspace can have: the copies of
\* README.md are alike, the copies of report.txt vary
MetaOf(p) ==
  IF basename(p) = "README.md"
  THEN {[size |-> 100, modified |-> T0 - SecondsPerYear]}
  ELSE Meta

NoLog == [written |-> FALSE]

\* what is remembered of an earlier run on the same workspace: nothing yet
NoPrevious == [ran |-> FALSE, plan |-> <<>>, errors |-> <<>>]

\* the question agent has been asked nothing, of a graph that holds nothing
NoQuestion == [is_str |-> TRUE, text |-> ""]
NoGraph == [raises |-> FALSE, rows |-> <<>>]
NoResponse == [answered |-> FALSE]

-----------------------------------------------------------------------------
(* The walk and the grouping, get_file_info and find_duplicates *)

\* the record get_file_info builds from a successful os.stat (its 'created'
\* field, which nothing reads, is left out)
get_file_info(file_path, dk) ==
  [path |-> file_path, name |-> basename(file_path),
   size |-> dk[file_path].size, modified |-> dk[file_path].modified]

\* the sub-directories os.walk is given for one directory, in listing order
SubDirs(dir) ==
  CASE dir = workspace_dir -> DirOrder \o <<".git", ".github">>
    [] dir = path_join(workspace_dir, "a") -> <<"node_modules">>
    [] OTHER -> <<>>

\* the file names os.walk is given for one directory, in listing order
FileNames(dir) ==
  IF \E d \in Range(DirOrder) : dir = path_join(workspace_dir, d)
  THEN NameOrder[CHOOSE d \in Range(DirOrder) : dir = path_join(workspace_dir, d)]
       \o [i \in 1..MaxGroups |-> GroupName(i)]
  ELSE IF dir = workspace_dir
  THEN <<"report.txt", basename(log_file)>>
  ELSE <<"report.txt">>

\* dirs[:] = [d for d in dirs if not any(preserve in d ...)]
kept_dirs(dirs) ==
  SelectSeq(dirs, LAMBDA d : ~(\E preserve \in preserve_dirs : Contains(preserve, d)))

RECURSIVE files_in(_, _, _)
\* the files of one directory that are on disk, in listing order
files_in(root, names, dk) ==
  IF names = <<>> THEN <<>>
  ELSE (IF path_join(root, Head(names)) \in DOMAIN dk
        THEN <<path_join(root, Head(names))>> ELSE <<>>)
       \o files_in(root, Tail(names), dk)

RECURSIVE os_walk(_, _)
RECURSIVE walk_each(_, _, _)
\* os.walk top-down from one directory with the pruning of line 140: the
\* files of the directory, then the walk of each kept sub-directory; every
\* file path, in discovery order
os_walk(top, dk) ==
  files_in(top, FileNames(top), dk) \o walk_each(top, kept_dirs(SubDirs(top)), dk)

walk_each(top, dirs, dk) ==
  IF dirs = <<>> THEN <<>>
  ELSE os_walk(path_join(top, Head(dirs)), dk) \o walk_each(top, Tail(dirs), dk)

\* what os.walk yields for the workspace argument: nothing when it is not a
\* directory (the error of scandir is ignored)
walk_files(kind, dk) ==
  IF kind = "dir" THEN os_walk(workspace_dir, dk) ELSE <<>>

\* a slip: every record opens a list of its own
add_to_groups_mut(groups, info) ==
  Append(groups, [key |-> <<info.name, info.size>>, files |-> <<info>>])

\* file_groups[key].append(file_info) on an insertion-ordered mapping
add_to_groups(groups, info) ==
  LET key == <<info.name, info.size>> IN
  IF \E i \in 1..Len(groups) : groups[i].key = key
  THEN [i \in 1..Len(groups) |->
          IF groups[i].key = key
          THEN [groups[i] EXCEPT !.files = Append(@, info)]
          ELSE groups[i]]
  ELSE Append(groups, [key |-> key, files |-> <<info>>])

RECURSIVE scan_mut(_, _, _, _)
scan_mut(paths, stat_fails, dk, acc) ==
  IF paths = <<>> THEN acc
  ELSE LET p == Head(paths) IN
       IF p \in stat_fails
       THEN <<acc[1], acc[2], Append(acc[3], "Error accessing " \o p)>>
       ELSE scan_mut(Tail(paths), stat_fails, dk,
                     <<add_to_groups(acc[1], get_file_info(p, dk)), acc[2] + 1, acc[3]>>)

\* one turn of the loop of find_duplicates on the file p; acc is
\* <<file_groups, files_analyzed, errors>>; file_info is bound once, as in
\* the code
scan_step(acc, p, stat_fails, dk) ==
  IF p \in stat_fails
  THEN <<acc[1], acc[2], Append(acc[3], "Error accessing " \o p)>>
  ELSE CHOOSE r \in {<<add_to_groups(acc[1], file_info), acc[2] + 1, acc[3]>> :
                       file_info \in {get_file_info(p, dk)}} : TRUE

RECURSIVE scan(_, _, _, _)
\* the loop of find_duplicates: acc is <<file_groups, files_analyzed, errors>>
scan(paths, stat_fails, dk, acc) ==
  IF paths = <<>> THEN acc
  ELSE scan(Tail(paths), stat_fails, dk, scan_step(acc, Head(paths), stat_fails, dk))

\* a slip: the lists of one file pass the filter
only_duplicates_mut(groups) == SelectSeq(groups, LAMBDA g : Len(g.files) > 0)

\* {key: files for key, files in file_groups.items() if len(files) > 1}
only_duplicates(groups) == SelectSeq(groups, LAMBDA g : Len(g.files) > 1)

-----------------------------------------------------------------------------
(* The scorer, select_file_to_keep *)

\* sum of len(rules) - i over the rules the path satisfies
rule_points(p) ==
  LET pts[i \in 0..NumRules] ==
        IF i = NumRules THEN 0
        ELSE (IF preservation_rule(i, p) THEN NumRules - i ELSE 0) + pts[i + 1]
  IN  pts[0]

\* rule_points, tabulated over the paths of the model
RulePoints == [p \in SlotPaths \cup PlanPaths |-> rule_points(p)]

\* score of one candidate, times 86400 * 365; now is the clock read for it
score(file_info, now) ==
  RulePoints[file_info.path] * SecondsPerYear + (now - file_info.modified)

\* list.sort(key = first component, reverse = True): the sort is stable, so
\* an element goes behind the elements of a larger key and behind the
\* elements of the same key that stood before it
sort_reverse(s) ==
  LET place(i) == Cardinality({j \in 1..Len(s) : s[j][1] > s[i][1]})
                  + Cardinality({j \in 1..i : s[j][1] = s[i][1]})
  IN  [r \in 1..Len(s) |-> s[CHOOSE i \in 1..Len(s) : place(i) = r]]

\* reads[i] is what datetime.now() returns while candidate i is scored; the
\* planner never passes an empty list
select_file_to_keep(fl, reads) ==
  IF Len(fl) <= 1 THEN fl[1]
  ELSE LET scored_files == [i \in 1..Len(fl) |-> <<score(fl[i], reads[i]), fl[i]>>]
       IN  sort_reverse(scored_files)[1][2]

\* the readings a wall clock can give during one call: it does not run backwards
ClockReads(n) ==
  {r \in [1..n -> Clock] : \A i \in 1..n, j \in 1..n : i < j => r[i] <= r[j]}

-----------------------------------------------------------------------------
(* The planner, plan_cleanup *)

\* a slip: the name is looked up in the wrong set
is_critical_file_mut(filename) == filename \in preserve_dirs

\* is_critical_file
is_critical_file(filename) == filename \in critical_files

\* a slip: the whole group is counted
preserved_count_mut(fl) == Len(fl)

\* len(file_list) - 1, what a critical group adds to files_preserved
preserved_count(fl) == Len(fl) - 1

\* a slip: the kept copy is not taken out of the list
files_to_delete_all_mut(fl, file_to_keep) == fl

\* a slip: the copies are told apart by their time instead of their path
files_to_delete_mut(fl, file_to_keep) ==
  SelectSeq(fl, LAMBDA f : f.modified # file_to_keep.modified)

\* [f for f in file_list if f['path'] != file_to_keep['path']]
files_to_delete(fl, file_to_keep) ==
  SelectSeq(fl, LAMBDA f : f.path # file_to_keep.path)

\* a slip: the space of one file is added whatever the length of delete
plan_group_mut(g, reads, plan, st) ==
  LET filename == g.key[1]
      size == g.key[2]
  IN
  IF is_critical_file(filename)
  THEN <<plan, [st EXCEPT !.files_preserved = @ + preserved_count(g.files)]>>
  ELSE LET file_to_keep == select_file_to_keep(g.files, reads)
           del == files_to_delete(g.files, file_to_keep)
       IN  IF del # <<>>
           THEN <<Append(plan, [filename |-> filename, size |-> size,
                                keep |-> file_to_keep, delete |-> del,
                                space_saved |-> size * Len(del)]),
                  [st EXCEPT !.files_to_delete = @ + Len(del),
                             !.space_to_save = @ + size]>>
           ELSE <<plan, st>>

\* the body of the loop of plan_cleanup for one group: <<cleanup_plan, stats>>
plan_group(g, reads, plan, st) ==
  LET filename == g.key[1]
      size == g.key[2]
  IN
  IF is_critical_file(filename)
  THEN <<plan, [st EXCEPT !.files_preserved = @ + preserved_count(g.files)]>>
  ELSE LET file_to_keep == select_file_to_keep(g.files, reads)
           del == files_to_delete(g.files, file_to_keep)
       IN  IF del # <<>>
           THEN <<Append(plan, [filename |-> filename, size |-> size,
                                keep |-> file_to_keep, delete |-> del,
                                space_saved |-> size * Len(del)]),
                  [st EXCEPT !.files_to_delete = @ + Len(del),
                             !.space_to_save = @ + size * Len(del)]>>
           ELSE <<plan, st>>

-----------------------------------------------------------------------------
(* The preview, the prompt and the execution *)

\* the preview lists sorted_plan[:10]
TopN == 10

\* a slip: the plan is cut without being sorted
preview_items_mut(plan) ==
  SubSeq(plan, 1, IF Len(plan) < TopN THEN Len(plan) ELSE TopN)

\* sorted(cleanup_plan, key = space_saved, reverse = True)[:10]
preview_items(plan) ==
  LET keyed == [i \in 1..Len(plan) |-> <<plan[i].space_saved, plan[i]>>]
      sorted_plan == sort_reverse(keyed)
      n == IF Len(sorted_plan) < TopN THEN Len(sorted_plan) ELSE TopN
  IN  [i \in 1..n |-> sorted_plan[i][2]]

\* the value of response before anything was typed
NotAsked == "<not asked>"

\* what the user can type at the prompt
Responses == {"y", "Y", " y ", "yes", "n", "N", ""}

\* a slip: everything but a plain no goes on
proceeds_mut(resp) == Lower(Strip(resp)) # "n"

\* response = input(...).strip().lower(); the run goes on when response == 'y'
proceeds(resp) == Lower(Strip(resp)) = "y"

\* lines 261-262: self.create_backup is the value bound in __init__ (line 36),
\* a bool, which hides the method of line 186; when it is True, calling it
\* raises TypeError, and the handler of line 282 catches that
backup_result(flag) ==
  IF flag THEN "'bool' object is not callable" ELSE "not requested"

\* a slip: the removal goes ahead whatever became of the backup
reaches_remove_mut(b) == TRUE

\* os.remove on line 267 is reached when no backup was asked for or the
\* backup call returned True
reaches_remove(b) == b \in {"not requested", "True"}

\* backup_dir / Path(file_path).relative_to(workspace_dir)
backup_path(file_path) ==
  backup_dir \o SubSeq(file_path, Len(workspace_dir) + 1, Len(file_path))

\* a slip: the rest of a delete list is given up after one of its files
next_entry_mut(plan, i, j) == <<i + 1, 1>>

\* the entry behind the one at (i, j) in the nested loops of execute_cleanup
next_entry(plan, i, j) ==
  IF j < Len(plan[i].delete) THEN <<i, j + 1>> ELSE <<i + 1, 1>>

\* a slip: the record names the deleted file as the kept copy
action_entry_mut(file_to_delete, item) ==
  [action |-> "delete", file |-> file_to_delete.path,
   size |-> file_to_delete.size, kept_copy |-> file_to_delete.path]

\* the action record of a deletion (its time stamp is left out)
action_entry(file_to_delete, item) ==
  [action |-> "delete", file |-> file_to_delete.path,
   size |-> file_to_delete.size, kept_copy |-> item.keep.path]

\* a slip: the log says the opposite of the mode of the run
log_data_mut(dr, cb, st, acts) ==
  [written |-> TRUE, workspace |-> workspace_dir, dry_run |-> ~dr,
   backup_created |-> cb,
   backup_location |-> IF cb THEN backup_dir ELSE "None",
   stats |-> st, actions |-> acts]

\* the document save_log writes (its time stamp is left out)
log_data(dr, cb, st, acts) ==
  [written |-> TRUE, workspace |-> workspace_dir, dry_run |-> dr,
   backup_created |-> cb,
   backup_location |-> IF cb THEN backup_dir ELSE "None",
   stats |-> st, actions |-> acts]

\* a slip: the early return of the dry run is lost
skips_execution_mut(dr) == FALSE

\* execute_cleanup returns at once when self.dry_run is set
skips_execution(dr) == dr

-----------------------------------------------------------------------------
(* A run of the tool *)

\* the state after DuplicateCleanup.__init__: main sets dry_run = not argv.confirm
\* and create_backup = argv.backup
Init ==
  /\ pc = "find_duplicates"
  /\ dry_run \in BOOLEAN
  /\ create_backup \in BOOLEAN
  /\ \E S \in SUBSET SlotPaths :
       /\ Cardinality(S) <= MaxFiles
       /\ disk \in {d \in [S -> Meta] : \A p \in S : d[p] \in MetaOf(p)}
  /\ disk0 = disk
  /\ stats = EmptyStats
  /\ actions = <<>>
  /\ duplicates = <<>>
  /\ cleanup_plan = <<>>
  /\ gi = 1
  /\ ei = 1
  /\ ej = 1
  /\ response = NotAsked
  /\ log_written = NoLog
  /\ exit_code = -1
  /\ fsops = <<>>
  /\ attempted = <<>>
  /\ rm_failed = {}
  /\ backup_failed = {}
  /\ shown = <<>>
  /\ file_list = <<>>
  /\ results = <<>>
  /\ argv = [confirm |-> ~dry_run, dry_run |-> FALSE, backup |-> create_backup]
  /\ ws_kind = "dir"
  /\ walked = <<>>
  /\ stat_failed = {}
  /\ log_failed = FALSE
  /\ previous = NoPrevious
  /\ root_dir = workspace_dir
  /\ fd_duplicates = <<>>
  /\ question = NoQuestion
  /\ kg = NoGraph
  /\ qa_response = NoResponse

\* find_duplicates, and the return of run when nothing is duplicated
FindDuplicates ==
  /\ pc = "find_duplicates"
  /\ LET paths == walk_files(ws_kind, disk) IN
     \E stat_fails \in SUBSET Range(paths) :
       /\ Cardinality(stat_fails) <= MaxStatFailures
       /\ LET acc == scan(paths, stat_fails, disk, <<<<>>, 0, stats.errors>>)
              dups == only_duplicates(acc[1])
          IN  /\ walked' = paths
              /\ stat_failed' = stat_fails
              /\ duplicates' = dups
              /\ stats' = [stats EXCEPT !.files_analyzed = acc[2],
                                        !.errors = acc[3],
                                        !.duplicate_groups = Len(dups)]
              /\ pc' = IF dups = <<>> THEN "done" ELSE "plan_cleanup"
              /\ exit_code' = IF dups = <<>> THEN 0 ELSE exit_code
  /\ UNCHANGED <<dry_run, create_backup, disk, actions, cleanup_plan, gi, ei, ej,
                 response, log_written, fsops, attempted, rm_failed, backup_failed,
                 disk0, shown, file_list, results, argv, ws_kind, log_failed, previous,
                 root_dir, fd_duplicates, question, kg, qa_response>>

\* one turn of the loop of plan_cleanup
PlanGroup ==
  /\ pc = "plan_cleanup"
  /\ gi <= Len(duplicates)
  /\ \E reads \in ClockReads(Len(duplicates[gi].files)) :
       LET r == plan_group(duplicates[gi], reads, cleanup_plan, stats)
       IN  /\ cleanup_plan' = r[1]
           /\ stats' = r[2]
  /\ gi' = gi + 1
  /\ UNCHANGED <<pc, dry_run, create_backup, disk, actions, duplicates, ei, ej,
                 response, log_written, exit_code, fsops, attempted, rm_failed,
                 backup_failed, disk0, shown, file_list, results,
                 argv, ws_kind, walked, stat_failed, log_failed, previous,
                 root_dir, fd_duplicates, question, kg, qa_response>>

\* preview_cleanup, and the branch of run that follows it
PreviewCleanup ==
  /\ pc = "plan_cleanup"
  /\ gi > Len(duplicates)
  /\ shown' = preview_items(cleanup_plan)
  /\ pc' = IF cleanup_plan = <<>> THEN "save_log"
           ELSE IF dry_run THEN "execute_cleanup" ELSE "confirm"
  /\ UNCHANGED <<dry_run, create_backup, disk, stats, actions, duplicates,
                 cleanup_plan, gi, ei, ej, response, log_written, exit_code,
                 fsops, attempted, rm_failed, backup_failed, disk0, file_list, results,
                 argv, ws_kind, walked, stat_failed, log_failed, previous,
                 root_dir, fd_duplicates, question, kg, qa_response>>

\* the prompt of a live run
Confirm ==
  /\ pc = "confirm"
  /\ \E typed \in Responses :
       /\ response' = typed
       /\ pc' = IF proceeds(typed) THEN "execute_cleanup" ELSE "done"
       /\ exit_code' = IF proceeds(typed) THEN exit_code ELSE 0
  /\ UNCHANGED <<dry_run, create_backup, disk, stats, actions, duplicates,
                 cleanup_plan, gi, ei, ej, log_written, fsops, attempted,
                 rm_failed, backup_failed, disk0, shown, file_list, results,
                 argv, ws_kind, walked, stat_failed, log_failed, previous,
                 root_dir, fd_duplicates, question, kg, qa_response>>

\* execute_cleanup in a dry run
ExecuteDryRun ==
  /\ pc = "execute_cleanup"
  /\ skips_execution(dry_run)
  /\ pc' = "save_log"
  /\ UNCHANGED <<dry_run, create_backup, disk, stats, actions, duplicates,
                 cleanup_plan, gi, ei, ej, response, log_written, exit_code,
                 fsops, attempted, rm_failed, backup_failed, disk0, shown,
                 file_list, results,
                 argv, ws_kind, walked, stat_failed, log_failed, previous,
                 root_dir, fd_duplicates, question, kg, qa_response>>

\* one turn of the inner loop of execute_cleanup in a live run
ExecuteFile ==
  /\ pc = "execute_cleanup"
  /\ ~skips_execution(dry_run)
  /\ ei <= Len(cleanup_plan)
  /\ LET item == cleanup_plan[ei]
         file_to_delete == item.delete[ej]
         file_path == file_to_delete.path
         b == backup_result(create_backup)
         nxt == next_entry(cleanup_plan, ei, ej)
     IN
     /\ \E remove_ok \in BOOLEAN :
          /\ remove_ok => file_path \in DOMAIN disk
          /\ ~remove_ok => /\ reaches_remove(b)
                           /\ Cardinality(rm_failed \cup {file_path}) <= MaxRemoveFailures
          /\ IF ~reaches_remove(b)
             THEN \* the handler of line 282
                  /\ stats' = [stats EXCEPT !.errors =
                        Append(@, "Failed to delete " \o file_path \o ": " \o b)]
                  /\ UNCHANGED <<disk, actions, fsops, rm_failed>>
             ELSE IF remove_ok
             THEN /\ disk' = [q \in DOMAIN disk \ {file_path} |-> disk[q]]
                  /\ actions' = Append(actions, action_entry(file_to_delete, item))
                  /\ fsops' = Append(fsops, [op |-> "remove", path |-> file_path])
                  /\ UNCHANGED <<stats, rm_failed>>
             ELSE \* os.remove raised: the handler of line 282
                  /\ stats' = [stats EXCEPT !.errors =
                        Append(@, "Failed to delete " \o file_path \o ": OSError")]
                  /\ rm_failed' = rm_failed \cup {file_path}
                  /\ UNCHANGED <<disk, actions, fsops>>
     /\ backup_failed' = IF b \in {"not requested", "True"}
                         THEN backup_failed ELSE backup_failed \cup {file_path}
     /\ attempted' = Append(attempted, file_path)
     /\ ei' = nxt[1]
     /\ ej' = nxt[2]
     /\ pc' = IF nxt[1] > Len(cleanup_plan) THEN "save_log" ELSE pc
  /\ UNCHANGED <<dry_run, create_backup, duplicates, cleanup_plan, gi, response,
                 log_written, exit_code, disk0, shown, file_list, results,
                 argv, ws_kind, walked, stat_failed, log_failed, previous,
                 root_dir, fd_duplicates, question, kg, qa_response>>

\* save_log, and the end of run; the time stamps of the log and of the actions
\* are left out
SaveLog ==
  /\ pc = "save_log"
  /\ \E write_ok \in BOOLEAN :
       IF write_ok
       THEN /\ log_written' = log_data(dry_run, create_backup, stats, actions)
            /\ fsops' = Append(fsops, [op |-> "write", path |-> log_file])
            /\ UNCHANGED log_failed
       ELSE \* the handler of line 306
            /\ log_failed' = TRUE
            /\ UNCHANGED <<log_written, fsops>>
  /\ pc' = "done"
  /\ exit_code' = 0
  /\ UNCHANGED <<dry_run, create_backup, disk, stats, actions, duplicates,
                 cleanup_plan, gi, ei, ej, response, attempted, rm_failed,
                 backup_failed, disk0, shown, file_list, results,
                 argv, ws_kind, walked, stat_failed, previous,
                 root_dir, fd_duplicates, question, kg, qa_response>>

\* the steps of run during which a KeyboardInterrupt can be raised
RunningPcs ==
  {"find_duplicates", "plan_cleanup", "confirm", "execute_cleanup", "save_log"}

\* a KeyboardInterrupt raised inside run: no handler of run catches it (the
\* handlers of lines 282 and 306 catch Exception only), main prints the notice
\* and calls sys.exit(1)
Interrupt ==
  /\ pc \in RunningPcs
  /\ pc' = "interrupted"
  /\ exit_code' = 1
  /\ UNCHANGED <<dry_run, create_backup, disk, stats, actions, duplicates,
                 cleanup_plan, gi, ei, ej, response, log_written, fsops,
                 attempted, rm_failed, backup_failed, disk0, shown, file_list,
                 results, argv, ws_kind, walked, stat_failed, log_failed, previous,
                 root_dir, fd_duplicates, question, kg, qa_response>>

Next ==
  \/ FindDuplicates
  \/ PlanGroup
  \/ PreviewCleanup
  \/ Confirm
  \/ ExecuteDryRun
  \/ ExecuteFile
  \/ SaveLog
  \/ Interrupt

Spec == Init /\ [][Next]_vars

-----------------------------------------------------------------------------
(* The program from its command line: main, then the run                      *)

\* the files of the workspaces main is started on
MainPaths == {p \in SlotPaths : basename(p) = "report.txt" /\ ~Contains("Original", p)}

\* parser.parse_args: --dry-run is a store_true flag whose default is True
parse_args(av) == [confirm |-> av.confirm, dry_run |-> TRUE, backup |-> av.backup]

\* dry_run = not args.confirm
is_dry_run_mut(a) == a.dry_run
is_dry_run(a) == ~a.confirm

\* os.path.exists(args.workspace)
path_exists(kind) == kind \in {"dir", "file"}

\* the process before main runs: argv tells which flags were given, ws_kind
\* what the --workspace path names; dry_run and create_backup hold the
\* defaults of __init__ until the object is built
MainInit ==
  /\ pc = "main"
  /\ argv \in [confirm : BOOLEAN, dry_run : BOOLEAN, backup : BOOLEAN]
  /\ ws_kind \in {"dir", "file", "missing"}
  /\ \E S \in SUBSET MainPaths :
       /\ ws_kind # "dir" => S = {}
       /\ disk \in [S -> Meta]
  /\ disk0 = disk
  /\ dry_run = TRUE
  /\ create_backup = FALSE
  /\ stats = EmptyStats
  /\ actions = <<>>
  /\ duplicates = <<>>
  /\ cleanup_plan = <<>>
  /\ gi = 1
  /\ ei = 1
  /\ ej = 1
  /\ response = NotAsked
  /\ log_written = NoLog
  /\ exit_code = -1
  /\ fsops = <<>>
  /\ attempted = <<>>
  /\ rm_failed = {}
  /\ backup_failed = {}
  /\ shown = <<>>
  /\ file_list = <<>>
  /\ results = <<>>
  /\ walked = <<>>
  /\ stat_failed = {}
  /\ log_failed = FALSE
  /\ previous = NoPrevious
  /\ root_dir = workspace_dir
  /\ fd_duplicates = <<>>
  /\ question = NoQuestion
  /\ kg = NoGraph
  /\ qa_response = NoResponse

\* main up to the call of run: the existence check, then the construction
Main ==
  /\ pc = "main"
  /\ IF ~path_exists(ws_kind)
     THEN /\ pc' = "done"
          /\ exit_code' = 1
          /\ UNCHANGED <<dry_run, create_backup>>
     ELSE /\ dry_run' = is_dry_run(parse_args(argv))
          /\ create_backup' = parse_args(argv).backup
          /\ pc' = "find_duplicates"
          /\ UNCHANGED exit_code
  /\ UNCHANGED <<disk, stats, actions, duplicates, cleanup_plan, gi, ei, ej,
                 response, log_written, fsops, attempted, rm_failed,
                 backup_failed, disk0, shown, file_list, results, argv, ws_kind,
                 walked, stat_failed, log_failed, previous,
                 root_dir, fd_duplicates, question, kg, qa_response>>

MainNext == Main \/ Next

SpecMain == MainInit /\ [][MainNext]_vars

-----------------------------------------------------------------------------
(* The walk on its own: find_duplicates over a workspace that has excluded    *)
(* directories, a directory whose name only contains an excluded name, and    *)
(* files at several depths                                                     *)

WalkPaths ==
  {path_join(workspace_dir, "report.txt"),
   path_join(path_join(workspace_dir, "a"), "report.txt"),
   path_join(path_join(workspace_dir, "b"), "report.txt"),
   path_join(path_join(workspace_dir, ".git"), "report.txt"),
   path_join(path_join(workspace_dir, ".github"), "report.txt"),
   path_join(path_join(path_join(workspace_dir, "a"), "node_modules"), "report.txt")}

WalkInit ==
  /\ pc = "find_duplicates"
  /\ \E S \in SUBSET WalkPaths :
       disk \in [S -> [size : Sizes, modified : {T0 - SecondsPerYear}]]
  /\ disk0 = disk
  /\ dry_run = TRUE
  /\ create_backup = FALSE
  /\ argv = [confirm |-> FALSE, dry_run |-> FALSE, backup |-> FALSE]
  /\ ws_kind = "dir"
  /\ stats = EmptyStats
  /\ actions = <<>>
  /\ duplicates = <<>>
  /\ cleanup_plan = <<>>
  /\ gi = 1
  /\ ei = 1
  /\ ej = 1
  /\ response = NotAsked
  /\ log_written = NoLog
  /\ exit_code = -1
  /\ fsops = <<>>
  /\ attempted = <<>>
  /\ rm_failed = {}
  /\ backup_failed = {}
  /\ shown = <<>>
  /\ file_list = <<>>
  /\ results = <<>>
  /\ walked = <<>>
  /\ stat_failed = {}
  /\ log_failed = FALSE
  /\ previous = NoPrevious
  /\ root_dir = workspace_dir
  /\ fd_duplicates = <<>>
  /\ question = NoQuestion
  /\ kg = NoGraph
  /\ qa_response = NoResponse

WalkNext == FindDuplicates

SpecWalk == WalkInit /\ [][WalkNext]_vars

-----------------------------------------------------------------------------
(* Two dry runs in a row on one workspace *)

\* the log file the first run left in the workspace
LogMeta == [size |-> 300, modified |-> T0]

\* the tool is started again on the same workspace after a dry run has come
\* to its end: __init__ builds a fresh cleaner (lines 33-78); the files are
\* those of the first run and the log it wrote, whose name no other file
\* bears.  The scorer compares the clock readings of one call only, so the
\* second run may draw its readings from the same range as the first.
Rerun ==
  /\ pc = "done"
  /\ dry_run
  /\ exit_code = 0
  /\ ~previous.ran
  /\ previous' = [ran |-> TRUE, plan |-> cleanup_plan, errors |-> stats.errors]
  /\ disk' = IF log_written # NoLog THEN (log_file :> LogMeta) @@ disk ELSE disk
  /\ pc' = "find_duplicates"
  /\ stats' = EmptyStats
  /\ actions' = <<>>
  /\ duplicates' = <<>>
  /\ cleanup_plan' = <<>>
  /\ gi' = 1
  /\ ei' = 1
  /\ ej' = 1
  /\ response' = NotAsked
  /\ log_written' = NoLog
  /\ exit_code' = -1
  /\ fsops' = <<>>
  /\ attempted' = <<>>
  /\ shown' = <<>>
  /\ walked' = <<>>
  /\ stat_failed' = {}
  /\ log_failed' = FALSE
  /\ UNCHANGED <<dry_run, create_backup, rm_failed, backup_failed, disk0,
                 file_list, results, argv, ws_kind,
                 root_dir, fd_duplicates, question, kg, qa_response>>

ScorerPaths == {p \in SlotPaths : basename(p) = "report.txt"}

\* a dry run on a workspace that holds copies of report.txt only
RerunInit ==
  /\ Init
  /\ dry_run
  /\ DOMAIN disk \subseteq ScorerPaths

RerunNext ==
  \/ FindDuplicates
  \/ PlanGroup
  \/ PreviewCleanup
  \/ ExecuteDryRun
  \/ SaveLog
  \/ Rerun

SpecRerun == RerunInit /\ [][RerunNext]_vars

-----------------------------------------------------------------------------
(* The planner and the preview on their own: plan_cleanup and preview_cleanup *)
(* over the groups of a workspace with many duplicated names                  *)

\* the files of the group of name i: a copy in a/ and one in Original/, and
\* one in b/ when the group has three members
plan_files(i, three) ==
  {path_join(path_join(workspace_dir, d), GroupName(i)) :
     d \in IF three THEN {"a", "b", "Original"} ELSE {"a", "Original"}}

\* the state in which run calls plan_cleanup, after a walk without errors
\* over a workspace of n duplicated names
PlanInit ==
  /\ pc = "plan_cleanup"
  /\ \E n \in 0..MaxGroups : \E sz \in [1..n -> Sizes] : \E three \in BOOLEAN :
       /\ n = 0 => ~three
       /\ Cardinality({i \in 1..n : \A x \in Sizes : sz[i] >= x}) <= MaxLargeGroups
       /\ disk = [p \in UNION {plan_files(i, i = 1 /\ three) : i \in 1..n} |->
                   [size |-> sz[CHOOSE i \in 1..n : p \in plan_files(i, TRUE)],
                    modified |-> T0 - SecondsPerYear]]
  /\ disk0 = disk
  /\ walked = walk_files("dir", disk)
  /\ \E acc \in {scan(walked, {}, disk, <<<<>>, 0, <<>>>>)} :
       /\ duplicates = only_duplicates(acc[1])
       /\ stats = [EmptyStats EXCEPT !.files_analyzed = acc[2],
                                     !.duplicate_groups = Len(duplicates)]
  /\ dry_run = TRUE
  /\ create_backup = FALSE
  /\ argv = [confirm |-> FALSE, dry_run |-> FALSE, backup |-> FALSE]
  /\ ws_kind = "dir"
  /\ actions = <<>>
  /\ cleanup_plan = <<>>
  /\ gi = 1
  /\ ei = 1
  /\ ej = 1
  /\ response = NotAsked
  /\ log_written = NoLog
  /\ exit_code = -1
  /\ fsops = <<>>
  /\ attempted = <<>>
  /\ rm_failed = {}
  /\ backup_failed = {}
  /\ shown = <<>>
  /\ file_list = <<>>
  /\ results = <<>>
  /\ stat_failed = {}
  /\ log_failed = FALSE
  /\ previous = NoPrevious
  /\ root_dir = workspace_dir
  /\ fd_duplicates = <<>>
  /\ question = NoQuestion
  /\ kg = NoGraph
  /\ qa_response = NoResponse

PlanNext == PlanGroup \/ PreviewCleanup

SpecPlan == PlanInit /\ [][PlanNext]_vars

-----------------------------------------------------------------------------
(* Whole runs, dry and live, on a workspace with several duplicated names *)

\* the start of run on a workspace of 1..MaxExecGroups duplicated names, the
\* first of them with two or three copies
ExecInit ==
  /\ pc = "find_duplicates"
  /\ dry_run \in BOOLEAN
  /\ create_backup \in BOOLEAN
  /\ \E n \in 1..MaxExecGroups : \E sz \in [1..n -> Sizes] : \E three \in BOOLEAN :
       disk = [p \in UNION {plan_files(i, i = 1 /\ three) : i \in 1..n} |->
                 [size |-> sz[CHOOSE i \in 1..n : p \in plan_files(i, TRUE)],
                  modified |-> T0 - SecondsPerYear]]
  /\ disk0 = disk
  /\ stats = EmptyStats
  /\ actions = <<>>
  /\ duplicates = <<>>
  /\ cleanup_plan = <<>>
  /\ gi = 1
  /\ ei = 1
  /\ ej = 1
  /\ response = NotAsked
  /\ log_written = NoLog
  /\ exit_code = -1
  /\ fsops = <<>>
  /\ attempted = <<>>
  /\ rm_failed = {}
  /\ backup_failed = {}
  /\ shown = <<>>
  /\ file_list = <<>>
  /\ results = <<>>
  /\ argv = [confirm |-> ~dry_run, dry_run |-> FALSE, backup |-> create_backup]
  /\ ws_kind = "dir"
  /\ walked = <<>>
  /\ stat_failed = {}
  /\ log_failed = FALSE
  /\ previous = NoPrevious
  /\ root_dir = workspace_dir
  /\ fd_duplicates = <<>>
  /\ question = NoQuestion
  /\ kg = NoGraph
  /\ qa_response = NoResponse

SpecExec == ExecInit /\ [][Next]_vars

-----------------------------------------------------------------------------
(* The two scanners side by side: find_duplicate_files of find_duplicates.py *)
(* and DuplicateCleanup.find_duplicates, given one spelling of the root      *)

\* str(Path(s)) on POSIX, for a path that does not begin with two slashes:
\* empty components and "." components are dropped, a trailing slash too
PurePath(s) ==
  LET seps == {i \in 1..Len(s) : SubSeq(s, i, i) = "/"} \cup {0, Len(s) + 1}
      next(i) == CHOOSE k \in seps : k > i /\ \A m \in seps : m > i => k <= m
      parts[i \in seps] ==
        IF i = Len(s) + 1 THEN <<>>
        ELSE (IF SubSeq(s, i + 1, next(i) - 1) \in {"", "."}
              THEN <<>> ELSE <<SubSeq(s, i + 1, next(i) - 1)>>) \o parts[next(i)]
      cs == parts[0]
      joined[k \in 0..Len(cs)] ==
        IF k = 0 THEN ""
        ELSE IF k = 1 THEN cs[1] ELSE joined[k - 1] \o "/" \o cs[k]
  IN  IF StartsWith(s, "/") THEN "/" \o joined[Len(cs)]
      ELSE IF cs = <<>> THEN "." ELSE joined[Len(cs)]

\* a slip: the separator is added whatever the end of the first part
os_path_join_mut(a, b) == a \o "/" \o b

\* os.path.join(a, b) for a relative b: no separator is added after an empty
\* a or an a that ends with one
os_path_join(a, b) ==
  IF a = "" \/ SubSeq(a, Len(a), Len(a)) = "/" THEN a \o b ELSE a \o "/" \o b

\* the spellings of the workspace directory a caller can pass (the current
\* directory is / for the relative ones)
RootArgs == {"/ws", "/ws/", "/ws//", "/ws/.", "/./ws", "ws", "./ws", "ws/"}

\* the path of a file of the workspace relative to the workspace
rel(p) == SubSeq(p, Len(workspace_dir) + 2, Len(p))

RECURSIVE os_walk_all(_, _)
RECURSIVE walk_all_each(_, _, _)
\* os.walk top-down without any pruning (find_duplicates.py line 31)
os_walk_all(top, dk) ==
  files_in(top, FileNames(top), dk) \o walk_all_each(top, SubDirs(top), dk)

walk_all_each(top, dirs, dk) ==
  IF dirs = <<>> THEN <<>>
  ELSE os_walk_all(path_join(top, Head(dirs)), dk) \o walk_all_each(top, Tail(dirs), dk)

\* get_file_info of find_duplicates.py for the file p of the workspace, which
\* the walk from root spells os.path.join(root, ...)
fd_get_file_info(root, p, dk) ==
  [path |-> os_path_join(root, rel(p)), name |-> basename(p),
   size |-> dk[p].size, modified |-> dk[p].modified]

RECURSIVE fd_scan(_, _, _, _)
\* the loop of find_duplicate_files (lines 31-39); every stat succeeds
fd_scan(paths, root, dk, file_groups) ==
  IF paths = <<>> THEN file_groups
  ELSE fd_scan(Tail(paths), root, dk,
               add_to_groups(file_groups, fd_get_file_info(root, Head(paths), dk)))

\* find_duplicate_files(root_dir)
find_duplicate_files(root, dk) ==
  only_duplicates(fd_scan(os_walk_all(workspace_dir, dk), root, dk, <<>>))

\* DuplicateCleanup(root).find_duplicates(): the walk starts from
\* Path(root), so every path is spelled from str(Path(root))
cd_find_duplicates(root, dk) ==
  LET groups == only_duplicates(scan(walk_files("dir", dk), {}, dk, <<<<>>, 0, <<>>>>)[1])
  IN  [g \in 1..Len(groups) |->
         [groups[g] EXCEPT !.files =
            [i \in 1..Len(groups[g].files) |->
               [groups[g].files[i] EXCEPT
                  !.path = os_path_join(PurePath(root), rel(groups[g].files[i].path))]]]]

ScanPaths ==
  WalkPaths \cup {path_join(path_join(workspace_dir, "a"), "README.md"),
                  path_join(path_join(workspace_dir, "b"), "README.md")}

ScanInit ==
  /\ pc = "scan"
  /\ root_dir \in RootArgs
  /\ \E S \in SUBSET ScanPaths :
       disk \in [S -> [size : Sizes, modified : {T0 - SecondsPerYear}]]
  /\ disk0 = disk
  /\ dry_run = TRUE
  /\ create_backup = FALSE
  /\ argv = [confirm |-> FALSE, dry_run |-> FALSE, backup |-> FALSE]
  /\ ws_kind = "dir"
  /\ stats = EmptyStats
  /\ actions = <<>>
  /\ duplicates = <<>>
  /\ cleanup_plan = <<>>
  /\ gi = 1
  /\ ei = 1
  /\ ej = 1
  /\ response = NotAsked
  /\ log_written = NoLog
  /\ exit_code = -1
  /\ fsops = <<>>
  /\ attempted = <<>>
  /\ rm_failed = {}
  /\ backup_failed = {}
  /\ shown = <<>>
  /\ file_list = <<>>
  /\ results = <<>>
  /\ walked = <<>>
  /\ stat_failed = {}
  /\ log_failed = FALSE
  /\ previous = NoPrevious
  /\ fd_duplicates = <<>>
  /\ question = NoQuestion
  /\ kg = NoGraph
  /\ qa_response = NoResponse

\* both scanners are run on the same tree with the same root argument
ScanBoth ==
  /\ pc = "scan"
  /\ duplicates' = cd_find_duplicates(root_dir, disk)
  /\ fd_duplicates' = find_duplicate_files(root_dir, disk)
  /\ pc' = "scanned"
  /\ UNCHANGED <<dry_run, create_backup, disk, stats, actions, cleanup_plan, gi,
                 ei, ej, response, log_written, exit_code, fsops, attempted,
                 rm_failed, backup_failed, disk0, shown, file_list, results,
                 argv, ws_kind, walked, stat_failed, log_failed, previous,
                 root_dir, question, kg, qa_response>>

ScanNext == ScanBoth

SpecScan == ScanInit /\ [][ScanNext]_vars

-----------------------------------------------------------------------------
(* The question agent, ConstructionQAAgent.ask of knowledge_graph_qa *)

\* str.lower on ASCII letters
lower(s) ==
  LET U == "ABCDEFGHIJKLMNOPQRSTUVWXYZ"
      L == "abcdefghijklmnopqrstuvwxyz"
      conv(c) == IF \E k \in 1..Len(U) : SubSeq(U, k, k) = c
                 THEN LET k == CHOOSE k \in 1..Len(U) : SubSeq(U, k, k) = c
                      IN  SubSeq(L, k, k)
                 ELSE c
      f[i \in 0..Len(s)] == IF i = 0 THEN "" ELSE f[i - 1] \o conv(SubSeq(s, i, i))
  IN  f[Len(s)]

\* the keys of self.query_patterns, in insertion order
Categories ==
  <<"project_info", "people", "documents", "issues", "materials", "schedule">>

\* self.query_patterns
query_patterns ==
  [c \in Range(Categories) |->
     CASE c = "project_info" ->
            {"project", "budget", "timeline", "status", "schedule", "start date",
             "end date", "completion", "progress"}
       [] c = "people" ->
            {"manager", "contractor", "team", "contact", "responsible",
             "assigned", "who is", "who does", "person", "employee"}
       [] c = "documents" ->
            {"document", "file", "drawing", "specification", "contract",
             "submittal", "rfi", "plan", "blueprint", "report"}
       [] c = "issues" ->
            {"problem", "issue", "delay", "conflict", "risk", "discrepancy",
             "change order", "concern"}
       [] c = "materials" ->
            {"material", "equipment", "supply", "vendor", "cost", "procurement",
             "delivery", "installation"}
       [] c = "schedule" ->
            {"when", "deadline", "milestone", "phase", "task", "due date",
             "completion date", "schedule"}]

\* classify_query_type: the category with the most keywords in the lowered
\* question, the first of them in insertion order; 'general' without any
classify_query_type(text) ==
  LET question_lower == lower(text)
      scores == [c \in Range(Categories) |->
                   Cardinality({k \in query_patterns[c] : Contains(k, question_lower)})]
      best == CHOOSE i \in 1..Len(Categories) :
                /\ \A j \in 1..Len(Categories) : scores[Categories[j]] <= scores[Categories[i]]
                /\ \A j \in 1..(i - 1) : scores[Categories[j]] < scores[Categories[i]]
  IN  IF \A c \in Range(Categories) : scores[c] = 0 THEN "general" ELSE Categories[best]

\* what a row of the graph holds under the keys the formatting reads: a
\* budget that is missing, a number or a non-empty string; labels under
\* 'type' that are missing, a list of strings or null
BudgetValues == {"<none>", "<number>", "<string>"}
TypeValues == {"<absent>", "<labels>", "<null>"}
Rows == [budget : BudgetValues, type : TypeValues]

\* the rows self.kg.query_graph can return
RowLists == UNION {[1..n -> Rows] : n \in 0..MaxRows}

\* the questions asked: one for each category, a tie between two categories
\* in capitals, one without any keyword, the empty one, and a value that is
\* not a string
Questions ==
  {[is_str |-> TRUE, text |-> t] :
     t \in {"Who is the project manager?", "What's the project budget?",
            "Find all documents", "Are there any issues?", "Material cost?",
            "When is the deadline?", "SHOW THE SCHEDULE",
            "What companies are involved?", ""}}
  \cup {[is_str |-> FALSE, text |-> ""]}

\* the formatting of lines 211-258 raises: the ',' format of line 235 on a
\* budget that is a string, for the first row of a project_info answer; the
\* join of line 255 on a null 'type', for one of the first five rows of an
\* answer of the general branch (which also serves issues, materials and
\* schedule)
format_raises(rs, query_type) ==
  IF query_type = "project_info" THEN rs[1].budget = "<string>"
  ELSE IF query_type \in {"people", "documents"} THEN FALSE
  ELSE \E i \in 1..Len(rs) : i <= 5 /\ rs[i].type = "<null>"

\* the QAResponse of the handler of line 308
error_response ==
  [answered |-> TRUE, confidence |-> "0.0", sources |-> <<>>, reasoning |-> "Error"]

\* a slip: full confidence without any row
format_response_mut(rs, query_type) ==
  [answered |-> TRUE, confidence |-> "0.8", sources |-> rs,
   reasoning |-> IF rs = <<>> THEN "No matching data" ELSE "Found"]

\* format_response when it returns: its confidence, sources and the kind of
\* its reasoning (the text of the answer is left out)
format_response(rs, query_type) ==
  IF rs = <<>>
  THEN [answered |-> TRUE, confidence |-> "0.1", sources |-> <<>>,
        reasoning |-> "No matching data"]
  ELSE [answered |-> TRUE, confidence |-> IF rs # <<>> THEN "0.8" ELSE "0.1",
        sources |-> rs, reasoning |-> "Found"]

\* ask: every Exception raised between line 281 and line 306 ends in the
\* handler of line 308.  question.lower() raises on a value that is not a
\* string, query_graph may raise, and so may the formatting of rows
ask(q, graph) ==
  IF ~q.is_str THEN error_response
  ELSE IF graph.raises THEN error_response
  ELSE IF graph.rows # <<>> /\ format_raises(graph.rows, classify_query_type(q.text))
  THEN error_response
  ELSE format_response(graph.rows, classify_query_type(q.text))

AskInit ==
  /\ pc = "ask"
  /\ question \in Questions
  /\ kg \in [raises : {FALSE}, rows : RowLists] \cup {[raises |-> TRUE, rows |-> <<>>]}
  /\ qa_response = NoResponse
  /\ disk = <<>>
  /\ disk0 = disk
  /\ dry_run = TRUE
  /\ create_backup = FALSE
  /\ argv = [confirm |-> FALSE, dry_run |-> FALSE, backup |-> FALSE]
  /\ ws_kind = "dir"
  /\ stats = EmptyStats
  /\ actions = <<>>
  /\ duplicates = <<>>
  /\ cleanup_plan = <<>>
  /\ gi = 1
  /\ ei = 1
  /\ ej = 1
  /\ response = NotAsked
  /\ log_written = NoLog
  /\ exit_code = -1
  /\ fsops = <<>>
  /\ attempted = <<>>
  /\ rm_failed = {}
  /\ backup_failed = {}
  /\ shown = <<>>
  /\ file_list = <<>>
  /\ results = <<>>
  /\ walked = <<>>
  /\ stat_failed = {}
  /\ log_failed = FALSE
  /\ previous = NoPrevious
  /\ root_dir = workspace_dir
  /\ fd_duplicates = <<>>

\* one call of ask
Ask ==
  /\ pc = "ask"
  /\ qa_response' = ask(question, kg)
  /\ pc' = "answered"
  /\ UNCHANGED <<dry_run, create_backup, disk, stats, actions, duplicates,
                 cleanup_plan, gi, ei, ej, response, log_written, exit_code,
                 fsops, attempted, rm_failed, backup_failed, disk0, shown,
                 file_list, results, argv, ws_kind, walked, stat_failed,
                 log_failed, previous, root_dir, fd_duplicates, question, kg>>

AskNext == Ask

SpecAsk == AskInit /\ [][AskNext]_vars

-----------------------------------------------------------------------------
(* The scorer on its own: select_file_to_keep applied again and again to one  *)
(* list of candidates                                                         *)

\* the lists of distinct candidates, all of one name and size
ScorerLists ==
  UNION {{[i \in 1..n |-> [path |-> ps[i], name |-> basename(ps[i]), size |-> 100,
                           modified |-> ms[i]]] :
            ps \in {q \in [1..n -> ScorerPaths] :
                      \A i \in 1..n, j \in 1..n : i # j => q[i] # q[j]},
            ms \in [1..n -> MTimes]} :
         n \in 1..Cardinality(ScorerPaths)}

ScorerInit ==
  /\ pc = "select_file_to_keep"
  /\ file_list \in ScorerLists
  /\ results = <<>>
  /\ dry_run = TRUE
  /\ create_backup = FALSE
  /\ disk = <<>>
  /\ disk0 = <<>>
  /\ stats = EmptyStats
  /\ actions = <<>>
  /\ duplicates = <<>>
  /\ cleanup_plan = <<>>
  /\ gi = 1
  /\ ei = 1
  /\ ej = 1
  /\ response = NotAsked
  /\ log_written = NoLog
  /\ exit_code = -1
  /\ fsops = <<>>
  /\ attempted = <<>>
  /\ rm_failed = {}
  /\ backup_failed = {}
  /\ shown = <<>>
  /\ argv = [confirm |-> FALSE, dry_run |-> FALSE, backup |-> FALSE]
  /\ ws_kind = "dir"
  /\ walked = <<>>
  /\ stat_failed = {}
  /\ log_failed = FALSE
  /\ previous = NoPrevious
  /\ root_dir = workspace_dir
  /\ fd_duplicates = <<>>
  /\ question = NoQuestion
  /\ kg = NoGraph
  /\ qa_response = NoResponse

\* one invocation of select_file_to_keep on file_list; the clock readings of
\* the invocation are kept next to its result
SelectFileToKeep ==
  /\ pc = "select_file_to_keep"
  /\ Len(results) < MaxInvocations
  /\ \E reads \in ClockReads(Len(file_list)) :
       results' = Append(results, [reads |-> reads,
                                   keep |-> select_file_to_keep(file_list, reads)])
  /\ UNCHANGED <<pc, dry_run, create_backup, disk, stats, actions, duplicates,
                 cleanup_plan, gi, ei, ej, response, log_written, exit_code,
                 fsops, attempted, rm_failed, backup_failed, disk0, shown,
                 file_list,
                 argv, ws_kind, walked, stat_failed, log_failed, previous,
                 root_dir, fd_duplicates, question, kg, qa_response>>

ScorerNext == SelectFileToKeep

SpecScorer == ScorerInit /\ [][ScorerNext]_vars

-----------------------------------------------------------------------------
(* Properties *)

\* the paths of the delete lists of the plan
PlanDeletePaths ==
  UNION {{cleanup_plan[i].delete[j].path : j \in 1..Len(cleanup_plan[i].delete)} :
         i \in 1..Len(cleanup_plan)}

ActionFiles == {actions[i].file : i \in 1..Len(actions)}

\* the answers that say yes
AffirmativeAnswers == {"y", "Y", " y ", "yes"}

\* C1: in a live run with backup enabled, every removal of a file is preceded
\* by a copy of that file to its place under backup_dir.
C1_BackupBeforeDelete ==
  (~dry_run /\ create_backup) =>
    \A i \in 1..Len(fsops) :
      fsops[i].op = "remove" =>
        /\ backup_path(fsops[i].path) \in DOMAIN disk
        /\ \E j \in 1..(i - 1) :
             /\ fsops[j].op = "copy"
             /\ fsops[j].src = fsops[i].path
             /\ fsops[j].dst = backup_path(fsops[i].path)

\* C1, the case it speaks of: with backup enabled no file is ever removed,
\* so the law above has nothing to speak about.
C1_NothingRemovedUnderBackup ==
  create_backup => (disk = disk0 /\ actions = <<>>)

\* C2: after a live run with backup, confirmed at the prompt, every file of a
\* delete list whose copy and unlink did not fail in the filesystem is in the
\* backup mirror, gone from the workspace and in the action log.
C2_BackupAndDelete ==
  (pc = "done" /\ ~dry_run /\ create_backup /\ response = "y") =>
    \A p \in PlanDeletePaths \ rm_failed :
      /\ backup_path(p) \in DOMAIN disk
      /\ p \notin DOMAIN disk
      /\ p \in ActionFiles

\* C3, as claimed: a dry run changes nothing under the workspace, no file is
\* created, removed or modified.
C3_DryRunNoChange ==
  dry_run => (disk = disk0 /\ fsops = <<>> /\ log_written = NoLog)

\* C3, amended: a dry run removes and modifies no file of the workspace, and
\* the only file it writes is its own log.
C3_DryRunKeepsFiles ==
  dry_run =>
    /\ disk = disk0
    /\ actions = <<>>
    /\ \A i \in 1..Len(fsops) : fsops[i] = [op |-> "write", path |-> log_file]

C3_Witness ==
  /\ dry_run
  /\ pc = "done"
  /\ cleanup_plan # <<>>
  /\ log_written # NoLog
  /\ fsops # <<>>

\* C4: in a live run nothing is copied or removed unless the prompt was
\* answered with yes; after any other answer the run is over and nothing of
\* the workspace was deleted, backed up or written.
C4_ConfirmationGate ==
  ~dry_run =>
    /\ (disk # disk0 \/ actions # <<>> \/ attempted # <<>>
          \/ \E i \in 1..Len(fsops) : fsops[i].op \in {"remove", "copy"})
         => response \in AffirmativeAnswers
    /\ (response # NotAsked /\ response \notin AffirmativeAnswers)
         => /\ pc = "done"
            /\ disk = disk0
            /\ fsops = <<>>
            /\ log_written = NoLog
            /\ actions = <<>>
            /\ attempted = <<>>

C4_Witness ==
  /\ ~dry_run
  /\ pc = "done"
  /\ response = ""
  /\ cleanup_plan # <<>>
  /\ disk = disk0

\* C5: with backup enabled, a file whose backup failed stays on disk and gets
\* no action-log entry, an error naming it is recorded, and the files behind
\* it in the plan are still processed.
C5_BackupFailureSkips ==
  create_backup =>
    /\ \A p \in backup_failed :
         /\ p \in DOMAIN disk
         /\ p \notin ActionFiles
         /\ \E i \in 1..Len(stats.errors) : Contains(p, stats.errors[i])
    /\ (backup_failed # {} /\ pc \in {"save_log", "done"})
         => PlanDeletePaths \subseteq Range(attempted)

C5_Witness ==
  /\ create_backup
  /\ pc = "done"
  /\ Cardinality(backup_failed) >= 2
  /\ Len(attempted) >= 2

\* a group of duplicates whose name is critical
IsCriticalGroup(g) == g.key[1] \in critical_files

\* the plan items made from group g
ItemsOf(g) ==
  {k \in 1..Len(cleanup_plan) :
     cleanup_plan[k].filename = g.key[1] /\ cleanup_plan[k].size = g.key[2]}

\* C6: a duplicate group with a critical name gets no plan item, and none of
\* its members is ever planned for deletion or removed, in any mode.
C6_CriticalExcluded ==
  \A i \in 1..Len(duplicates) :
    IsCriticalGroup(duplicates[i]) =>
      /\ ItemsOf(duplicates[i]) = {}
      /\ \A j \in 1..Len(duplicates[i].files) :
           LET p == duplicates[i].files[j].path IN
           /\ p \in DOMAIN disk
           /\ disk[p] = disk0[p]
           /\ p \notin PlanDeletePaths
           /\ p \notin ActionFiles
           /\ p \notin Range(attempted)

C6_Witness ==
  /\ pc = "done"
  /\ ~dry_run
  /\ actions # <<>>
  /\ \E i \in 1..Len(duplicates) : IsCriticalGroup(duplicates[i])

\* the sum of (group size - 1) over the critical groups
CriticalSurplus ==
  LET sum[i \in 0..Len(duplicates)] ==
        IF i = 0 THEN 0
        ELSE sum[i - 1] + (IF IsCriticalGroup(duplicates[i])
                           THEN Len(duplicates[i].files) - 1 ELSE 0)
  IN  sum[Len(duplicates)]

ReadmePaths == {p \in SlotPaths : basename(p) = "README.md"}

\* C7: once plan_cleanup is over, files_preserved is the sum of (group size - 1)
\* over the critical groups; a workspace holding just two README.md of one
\* size, both read by the scan, gives no plan item and files_preserved = 1.
C7_FilesPreserved ==
  /\ gi > Len(duplicates) => stats.files_preserved = CriticalSurplus
  /\ (DOMAIN disk0 = ReadmePaths /\ stats.files_analyzed = 2 /\ gi > Len(duplicates))
       => (cleanup_plan = <<>> /\ stats.files_preserved = 1)

C7_Witness ==
  /\ DOMAIN disk0 = ReadmePaths
  /\ pc = "done"
  /\ log_written # NoLog
  /\ cleanup_plan = <<>>
  /\ stats.files_preserved = 1

\* C8: every group whose name is not critical gets one plan item, whose delete
\* list has (group size - 1) entries, whose keep is a member of the group, and
\* whose keep is not in its delete list.
C8_DeleteAllButKeep ==
  \A i \in 1..Len(duplicates) :
    (i < gi /\ ~IsCriticalGroup(duplicates[i])) =>
      /\ Cardinality(ItemsOf(duplicates[i])) = 1
      /\ \A k \in ItemsOf(duplicates[i]) :
           LET item == cleanup_plan[k] IN
           /\ Len(item.delete) = Len(duplicates[i].files) - 1
           /\ item.keep \in Range(duplicates[i].files)
           /\ item.keep \notin Range(item.delete)
           /\ \A j \in 1..Len(item.delete) :
                /\ item.delete[j] \in Range(duplicates[i].files)
                /\ item.delete[j].path # item.keep.path

C8_Witness ==
  \E k \in 1..Len(cleanup_plan) :
    /\ Len(cleanup_plan[k].delete) = 2
    /\ pc = "done"

\* two paths satisfy the same preservation rules
SameRules(p, q) ==
  \A i \in 0..(NumRules - 1) : preservation_rule(i, p) = preservation_rule(i, q)

\* C9: of two candidates that satisfy the same rules and have the same
\* modification time, the later one in the list is never the one kept.
C9_TieBreakFirst ==
  \A k \in 1..Len(results) :
    \A i \in 1..Len(file_list), j \in 1..Len(file_list) :
      (/\ i < j
       /\ SameRules(file_list[i].path, file_list[j].path)
       /\ file_list[i].modified = file_list[j].modified)
        => results[k].keep # file_list[j]

\* C10: every invocation of select_file_to_keep on one list returns the same
\* file, whatever the clock reads.
C10_Deterministic ==
  \A i \in 1..Len(results), j \in 1..Len(results) : results[i].keep = results[j].keep

\* C11: select_file_to_keep returns exactly one member of the group, and that
\* member's score (the points R - i of every satisfied rule i, plus the age in
\* years, all ages taken at one instant) is the largest of the group; a group of one returns its sole member
C11_KeepsMaximalScore ==
  \A k \in 1..Len(results) :
    /\ Cardinality({i \in 1..Len(file_list) : file_list[i] = results[k].keep}) = 1
    /\ \A i \in 1..Len(file_list) :
         score(results[k].keep, results[k].reads[1])
           >= score(file_list[i], results[k].reads[1])
    /\ Len(file_list) = 1 => results[k].keep = file_list[1]

\* the members of a group satisfy the same preservation rules
GroupSameRules(files) ==
  \A i, j \in 1..Len(files) : SameRules(files[i].path, files[j].path)

\* the group of the walk a plan item was made from
GroupOf(item) ==
  CHOOSE g \in Range(duplicates) : g.key = <<item.filename, item.size>>

\* C12: in a planned group whose members satisfy the same preservation rules,
\* the kept file has the oldest modification time of the group, every other
\* member is in the delete list, and the item saves the size of each of them
C12_OldestKept ==
  \A k \in 1..Len(cleanup_plan) :
    LET item == cleanup_plan[k]
        files == GroupOf(item).files
    IN  GroupSameRules(files) =>
          /\ \A i \in 1..Len(files) : item.keep.modified <= files[i].modified
          /\ Range(item.delete) = Range(files) \ {item.keep}
          /\ item.space_saved = item.size * (Len(files) - 1)

\* the paths os.remove removed, in the order of the removals
RECURSIVE RemovedSeq(_)
RemovedSeq(ops) ==
  IF ops = <<>> THEN <<>>
  ELSE (IF Head(ops).op = "remove" THEN <<Head(ops).path>> ELSE <<>>)
       \o RemovedSeq(Tail(ops))

\* the keep paths of the plan items whose delete list holds the file
KeepPathsFor(p) ==
  {cleanup_plan[i].keep.path :
     i \in {k \in 1..Len(cleanup_plan) :
              \E j \in 1..Len(cleanup_plan[k].delete) : cleanup_plan[k].delete[j].path = p}}

ActionsPrefix(old, new) ==
  Len(old) <= Len(new) /\ SubSeq(new, 1, Len(old)) = old

\* C13: the action log only grows at its end; its entries are, one for one,
\* the files os.remove removed in this run, every entry names as kept_copy
\* the keep path of the plan item that listed the file, and a dry run has no
\* entry
C13_ActionLog ==
  /\ [](/\ [i \in 1..Len(actions) |-> actions[i].file] = RemovedSeq(fsops)
        /\ \A i \in 1..Len(actions) :
             /\ KeepPathsFor(actions[i].file) = {actions[i].kept_copy}
             /\ actions[i].file \notin DOMAIN disk
             /\ actions[i].file \in DOMAIN disk0
        /\ dry_run => actions = <<>>)
  /\ [][ActionsPrefix(actions, actions')]_vars

C13_Witness ==
  /\ ~dry_run
  /\ Len(actions) >= 1
  /\ rm_failed # {}
  /\ pc = "done"

\* the paths of the delete lists of the plan, in the order of the two loops
RECURSIVE PlanDeleteSeq(_)
PlanDeleteSeq(plan) ==
  IF plan = <<>> THEN <<>>
  ELSE [j \in 1..Len(Head(plan).delete) |-> Head(plan).delete[j].path]
       \o PlanDeleteSeq(Tail(plan))

\* the live execution has gone through the whole plan
ExecutionEnded ==
  ~dry_run /\ proceeds(response) /\ pc \in {"save_log", "done"}

\* C14: a failure of os.remove on one file leaves the file in place, adds one
\* entry for it to stats['errors'] and does not end the execution: the files
\* attempted are always a prefix of the delete lists, each tried once, and at
\* the end of the execution every file of every delete list has been tried
C14_FailureDoesNotAbort ==
  /\ ActionsPrefix(attempted, PlanDeleteSeq(cleanup_plan))
  /\ ExecutionEnded => attempted = PlanDeleteSeq(cleanup_plan)
  /\ \A p \in rm_failed :
       /\ p \in DOMAIN disk
       /\ p \notin ActionFiles
       /\ Cardinality({i \in 1..Len(stats.errors) :
                         stats.errors[i] = "Failed to delete " \o p \o ": OSError"}) = 1
  /\ \A p \in Range(attempted) \ (rm_failed \cup backup_failed) : p \in ActionFiles

C14_Witness ==
  /\ pc = "done"
  /\ Len(attempted) >= 2
  /\ attempted[1] \in rm_failed
  /\ attempted[2] \in ActionFiles

\* C15: when the user interrupts a live run after the prompt was answered
\* with y, the process exits with status 1 and the log has been written with
\* the actions recorded up to the interrupt
C15_InterruptWritesLog ==
  (pc = "interrupted" /\ ~dry_run /\ proceeds(response)) =>
     /\ exit_code = 1
     /\ log_written # NoLog
     /\ log_written.actions = actions

\* C16: when run has returned with errors recorded in stats['errors'] (and
\* the writing of the log did not itself fail), the log has been written and
\* holds those errors
C16_ErrorsLogged ==
  (pc = "done" /\ exit_code = 0 /\ stats.errors # <<>> /\ ~log_failed) =>
     /\ log_written # NoLog
     /\ log_written.stats.errors = stats.errors

\* C17: when the --workspace path does not exist, or exists and is not a
\* directory, the program ends with a non-zero exit status and never enters
\* the scan
C17_WorkspaceMustBeDirectory ==
  ws_kind # "dir" =>
     \/ pc = "main"
     \/ pc = "done" /\ exit_code \notin {-1, 0} /\ stats = EmptyStats

\* C18: once main has built the cleaner, the run is live exactly when
\* --confirm was given, with or without --dry-run; a dry run is never
\* prompted, and a live run reaches execute_cleanup and removes files only
\* after the prompt was answered with y
C18_LiveIffConfirm ==
  (pc # "main" /\ path_exists(ws_kind)) =>
     /\ dry_run <=> ~argv.confirm
     /\ dry_run => response = NotAsked /\ RemovedSeq(fsops) = <<>>
     /\ (~dry_run /\ (pc = "execute_cleanup" \/ RemovedSeq(fsops) # <<>>)) =>
          proceeds(response)

C18_Witness ==
  /\ argv.confirm
  /\ argv.dry_run
  /\ pc = "done"
  /\ response = "y"
  /\ actions # <<>>

\* the file lies under a directory, below the root, whose name is one of the
\* excluded names
UnderExcluded(p) ==
  \E name \in preserve_dirs :
    Contains("/" \o name \o "/", SubSeq(p, Len(workspace_dir) + 1, Len(p)))

Occurrences(seq, x) == Cardinality({i \in 1..Len(seq) : seq[i] = x})

\* C19: the walk enumerates once every file of the workspace that has no
\* ancestor directory named .git, .venv, node_modules, __pycache__ or
\* .pytest_cache, and no file that has one
C19_WalkEnumerates ==
  pc # "find_duplicates" =>
     /\ Range(walked) \subseteq DOMAIN disk
     /\ \A p \in DOMAIN disk :
          Occurrences(walked, p) = IF UnderExcluded(p) THEN 0 ELSE 1

\* the files of the groups find_duplicates returned
GroupedPaths ==
  UNION {{g.files[i].path : i \in 1..Len(g.files)} : g \in Range(duplicates)}

\* C20: a file whose os.stat failed during the walk has one entry in
\* stats['errors'], is in no group and is not counted in files_analyzed; the
\* files enumerated after it are still analysed and grouped
C20_StatFailureSkipsFile ==
  pc # "find_duplicates" =>
     /\ \A p \in stat_failed :
          /\ Occurrences(stats.errors, "Error accessing " \o p) = 1
          /\ p \notin GroupedPaths
     /\ stats.files_analyzed = Len(walked) - Cardinality(stat_failed)
     /\ \A q \in Range(walked) \ stat_failed :
          q \in GroupedPaths <=>
            \E r \in Range(walked) \ (stat_failed \cup {q}) :
              basename(r) = basename(q) /\ disk[r].size = disk[q].size

C20_Witness ==
  /\ pc # "find_duplicates"
  /\ \E i, j \in 1..Len(walked) :
       /\ i < j
       /\ walked[i] \in stat_failed
       /\ walked[j] \in GroupedPaths

\* the records of the walk: the enumerated files whose os.stat succeeded
Records == SelectSeq(walked, LAMBDA p : p \notin stat_failed)

KeyOf(p) == <<basename(p), disk[p].size>>

\* the enumerated records of one key, in discovery order
RecordsOfKey(k) == SelectSeq(Records, LAMBDA p : KeyOf(p) = k)

SharedKeys == {k \in {KeyOf(p) : p \in Range(Records)} : Len(RecordsOfKey(k)) >= 2}

\* C21: find_duplicates returns one list per (name, size) key that two or
\* more enumerated records share and no other; the list of a key holds the
\* records of that name and size, all of them and only them, in discovery
\* order, and stats['duplicate_groups'] is the number of keys returned
C21_GroupsByKey ==
  pc # "find_duplicates" =>
     /\ {duplicates[i].key : i \in 1..Len(duplicates)} = SharedKeys
     /\ \A i, j \in 1..Len(duplicates) : duplicates[i].key = duplicates[j].key => i = j
     /\ \A i \in 1..Len(duplicates) :
          /\ [j \in 1..Len(duplicates[i].files) |-> duplicates[i].files[j].path]
                = RecordsOfKey(duplicates[i].key)
          /\ \A j \in 1..Len(duplicates[i].files) :
               duplicates[i].files[j] = get_file_info(duplicates[i].files[j].path, disk)
     /\ stats.duplicate_groups = Len(duplicates)

\* two records of one key that are not neighbours in the walk, with a record
\* of another key between them
C21_Witness ==
  /\ pc # "find_duplicates"
  /\ Len(Records) >= 3
  /\ Len(duplicates) = 1
  /\ Len(duplicates[1].files) = 2
  /\ duplicates[1].files[1].path = Records[1]
  /\ duplicates[1].files[2].path = Records[3]

\* C22 as claimed: when the scanned files have one distinct (name, size) key
\* between them, find_duplicates returns no group
C22_OneKeyNoGroup ==
  (pc # "find_duplicates" /\ Cardinality({KeyOf(p) : p \in Range(Records)}) = 1) =>
     duplicates = <<>>

\* C22 amended: when no two scanned files have the same (name, size) key,
\* find_duplicates returns no group; when all scanned files have one key and
\* there are two or more of them, it returns exactly one group
C22_DistinctKeysNoGroup ==
  pc # "find_duplicates" =>
     /\ (\A i, j \in 1..Len(Records) : KeyOf(Records[i]) = KeyOf(Records[j]) => i = j)
          => duplicates = <<>>
     /\ (Cardinality({KeyOf(p) : p \in Range(Records)}) = 1 /\ Len(Records) >= 2)
          => Len(duplicates) = 1

C22_Witness ==
  /\ pc # "find_duplicates"
  /\ Len(Records) >= 2
  /\ \A i, j \in 1..Len(Records) : KeyOf(Records[i]) = KeyOf(Records[j]) => i = j
  /\ duplicates = <<>>

\* C23: a dry run that found duplicates and ran to its end leaves every file
\* on disk and, unless the writing of the log failed, has written a log whose
\* dry_run field is true and whose action list is empty, whether the plan
\* has items or every duplicate group was critical
C23_DryRunLog ==
  (dry_run /\ pc = "done" /\ duplicates # <<>>) =>
     /\ disk = disk0
     /\ ~log_failed =>
          /\ log_written # NoLog
          /\ log_written.dry_run = TRUE
          /\ log_written.actions = <<>>

\* the dry run whose duplicate groups are all critical: no plan item, a log
C23_Witness ==
  /\ dry_run
  /\ pc = "done"
  /\ duplicates # <<>>
  /\ \A i \in 1..Len(duplicates) : IsCriticalGroup(duplicates[i])
  /\ cleanup_plan = <<>>
  /\ log_written # NoLog

\* the place of a plan item in the plan (the file names of the items differ)
PlanIndex(item) == CHOOSE i \in 1..Len(cleanup_plan) : cleanup_plan[i] = item

\* C24: the preview lists at most 10 items of the plan, each once, in
\* descending order of space_saved; an item left out saves no more than any
\* item listed; items of equal space_saved keep their order in the plan, in
\* the list and at the cut
C24_PreviewTopTen ==
  pc # "plan_cleanup" =>
     /\ Len(shown) = IF Len(cleanup_plan) < 10 THEN Len(cleanup_plan) ELSE 10
     /\ \A k \in 1..Len(shown) : shown[k] \in Range(cleanup_plan)
     /\ \A k, l \in 1..Len(shown) :
          k < l =>
            /\ shown[k] # shown[l]
            /\ shown[k].space_saved >= shown[l].space_saved
            /\ shown[k].space_saved = shown[l].space_saved
                  => PlanIndex(shown[k]) < PlanIndex(shown[l])
     /\ \A i \in 1..Len(cleanup_plan) :
          cleanup_plan[i] \notin Range(shown) =>
            \A k \in 1..Len(shown) :
              \/ shown[k].space_saved > cleanup_plan[i].space_saved
              \/ /\ shown[k].space_saved = cleanup_plan[i].space_saved
                 /\ PlanIndex(shown[k]) < i

\* eleven plan items of which the last saves the most: it is listed first
\* and the tenth item of the plan is the one left out
C24_Witness ==
  /\ pc # "plan_cleanup"
  /\ Len(cleanup_plan) = 11
  /\ Len(shown) = 10
  /\ shown[1] = cleanup_plan[11]
  /\ cleanup_plan[10] \notin Range(shown)
  /\ shown[2] = cleanup_plan[1]

RECURSIVE SumDeleteLen(_)
SumDeleteLen(plan) ==
  IF plan = <<>> THEN 0 ELSE Len(Head(plan).delete) + SumDeleteLen(Tail(plan))

RECURSIVE SumSpaceSaved(_)
SumSpaceSaved(plan) ==
  IF plan = <<>> THEN 0 ELSE Head(plan).space_saved + SumSpaceSaved(Tail(plan))

\* C25: every plan item has space_saved = size * len(delete), and once
\* plan_cleanup has gone through all groups stats['files_to_delete'] is the
\* sum of len(delete) and stats['space_to_save'] the sum of space_saved over
\* the plan items
C25_SpaceAccounting ==
  /\ \A i \in 1..Len(cleanup_plan) :
       cleanup_plan[i].space_saved = cleanup_plan[i].size * Len(cleanup_plan[i].delete)
  /\ gi > Len(duplicates) =>
       /\ stats.files_to_delete = SumDeleteLen(cleanup_plan)
       /\ stats.space_to_save = SumSpaceSaved(cleanup_plan)

\* a finished plan of several items, one with two files to delete, and items
\* of different sizes
C25_Witness ==
  /\ gi > Len(duplicates)
  /\ Len(cleanup_plan) >= 3
  /\ Len(cleanup_plan[1].delete) = 2
  /\ \E i \in 1..Len(cleanup_plan) : cleanup_plan[i].size # cleanup_plan[1].size
  /\ stats.files_to_delete = Len(cleanup_plan) + 1

\* the run has ended after execute_cleanup returned: a dry run that came to
\* its end, or a live run, ended or interrupted, in which every file of the
\* plan was attempted
ReachedExecuted ==
  /\ cleanup_plan # <<>>
  /\ IF dry_run
     THEN pc = "done"
     ELSE /\ pc \in {"done", "interrupted"}
          /\ proceeds(response)
          /\ attempted = PlanDeleteSeq(cleanup_plan)

\* no file is removed before the preview was shown and the mode decided
C26_PreviewBeforeRemoval ==
  RemovedSeq(fsops) # <<>> =>
     /\ cleanup_plan # <<>>
     /\ shown = preview_items(cleanup_plan)
     /\ ~dry_run
     /\ proceeds(response)

\* the log is written only after execution has finished
C26_LogAfterExecution ==
  (log_written # NoLog /\ cleanup_plan # <<>>) =>
     /\ shown = preview_items(cleanup_plan)
     /\ dry_run \/ (proceeds(response) /\ attempted = PlanDeleteSeq(cleanup_plan))

\* C26: a run goes from Idle through Previewed, DryRun or Confirmed and
\* Executed to Logged: nothing is removed before the preview was shown and
\* the mode decided, the log is written only after execution has finished,
\* and every run that reached Executed has written the log when it ends (the
\* runs in which the writing itself failed are left aside)
C26_StateOrder ==
  /\ C26_PreviewBeforeRemoval
  /\ C26_LogAfterExecution
  /\ (ReachedExecuted /\ ~log_failed) => log_written # NoLog

\* C27: when a dry run has been followed by a second dry run on the same
\* workspace, and no stat failed in either, the second run ends with the plan
\* of the first: the same items with the same keep and the same delete lists
C27_DryRunIdempotent ==
  (previous.ran /\ pc = "done" /\ previous.errors = <<>> /\ stats.errors = <<>>) =>
     cleanup_plan = previous.plan

\* the (item, position) pairs of the delete lists of the plan
DeleteSlots ==
  UNION {{<<i, k>> : k \in 1..Len(cleanup_plan[i].delete)} :
           i \in 1..Len(cleanup_plan)}

\* C28: the keep of a plan item is never handed to the removal loop nor
\* removed; no path stands in two places of the delete lists, nor is the
\* keep of one item and a delete of any item; and every duplicate group has
\* a member on disk, whatever the mode, the backup flag and the failures
C28_KeptCopySurvives ==
  /\ \A i \in 1..Len(cleanup_plan) :
       /\ \A a \in 1..Len(attempted) : attempted[a] # cleanup_plan[i].keep.path
       /\ \A o \in 1..Len(fsops) :
            fsops[o].op = "remove" => fsops[o].path # cleanup_plan[i].keep.path
       /\ cleanup_plan[i].keep.path \in DOMAIN disk
  /\ \A s, t \in DeleteSlots :
       s # t => cleanup_plan[s[1]].delete[s[2]].path # cleanup_plan[t[1]].delete[t[2]].path
  /\ \A i \in 1..Len(cleanup_plan) : \A s \in DeleteSlots :
       cleanup_plan[i].keep.path # cleanup_plan[s[1]].delete[s[2]].path
  /\ \A g \in 1..Len(duplicates) :
       \E m \in 1..Len(duplicates[g].files) : duplicates[g].files[m].path \in DOMAIN disk

\* a live run with backup off has ended on a plan of two items: three files
\* were handed to the removal loop, one removal failed, the others happened
C28_Witness ==
  /\ pc = "done"
  /\ ~dry_run
  /\ Len(cleanup_plan) = 2
  /\ Len(attempted) = 3
  /\ rm_failed # {}
  /\ Len(RemovedSeq(fsops)) = 2
  /\ log_written # NoLog

\* no file of the tree lies under a directory whose name contains an
\* excluded name
NoExcludedDir ==
  \A p \in DOMAIN disk : \A name \in preserve_dirs :
    ~Contains(name, SubSeq(p, Len(workspace_dir) + 1, Len(p) - Len(basename(p))))

PathsOf(g) == [i \in 1..Len(g.files) |-> g.files[i].path]

RootInPathForm == root_dir \in {PurePath(root_dir), PurePath(root_dir) \o "/"}

AskRaised ==
  \/ ~question.is_str
  \/ kg.raises
  \/ /\ kg.rows # <<>>
     /\ format_raises(kg.rows, classify_query_type(question.text))

\* C30: ask returns a QAResponse for every question; its confidence is 0.0
\* and its sources are empty when classification, query or formatting
\* raised, and otherwise 0.8 when the query returned at least one row and
\* 0.1 when it returned none
C30_AskTotal ==
  pc = "answered" =>
     /\ qa_response.answered
     /\ qa_response.confidence =
          IF AskRaised THEN "0.0" ELSE IF kg.rows # <<>> THEN "0.8" ELSE "0.1"
     /\ AskRaised => qa_response.sources = <<>> /\ qa_response.reasoning = "Error"
     /\ ~AskRaised => qa_response.sources = kg.rows

\* the budget question answered from a row whose budget is a string: the
\* query returned a row, the formatting raised, and the confidence is 0.0
C30_Witness ==
  /\ pc = "answered"
  /\ question.text = "What's the project budget?"
  /\ Len(kg.rows) >= 1
  /\ kg.rows[1].budget = "<string>"
  /\ qa_response.confidence = "0.0"
  /\ qa_response.sources = <<>>
====
